---- MODULE Spec2Model ----
(***************************************************************************)
(* clean_polymarket.py: raw order fills -> one trade row per               *)
(* (transaction, outcome token), seen from the taker or the maker.         *)
(*                                                                         *)
(* The state machine follows main(): read the fills, determine_token_ids,  *)
(* clean_trades (numeric casts, fill filter, sort, one canon_group per     *)
(* transaction hash, final sort) and to_csv.  Token amounts are Python     *)
(* floats in the source (int64 / DECIMALS, accumulated with += and -=), so *)
(* the model carries IEEE-754 binary64 values, computed with round to      *)
(* nearest even on arbitrary-precision naturals.                           *)
(*                                                                         *)
(* query_polymarket.py, which fetches the fills, has its own state machine *)
(* (Backfill) over its own variables, further down.                        *)
(***************************************************************************)
EXTENDS Integers, Sequences, FiniteSets, TLC

VARIABLES args, sha3_installed, df, pc, err, YES_TOKEN, NO_TOKEN,
          kept, todo, results, out, csv,
          source, yes_no_ids, qpc, query, cursor, seen, written, loop_total, total

\* clean_polymarket.py
cleanVars == <<args, sha3_installed, df, pc, err, YES_TOKEN, NO_TOKEN,
               kept, todo, results, out, csv>>

\* query_polymarket.py
backfillVars == <<source, yes_no_ids, qpc, query, cursor, seen, written, loop_total, total>>

vars == <<cleanVars, backfillVars>>

\* the only element of a singleton set: {e(v) : v \in {x}} binds v to the value of x
The(S) == CHOOSE r \in S : TRUE

(***************************************************************************)
(* Naturals of any size: little-endian sequences of limbs in 0..BASE-1,    *)
(* no leading zero limb; <<>> is 0.                                        *)
(***************************************************************************)
BASE == 32768
LIMB_BITS == 15

RECURSIVE Pow2(_)
Pow2(n) == IF n = 0 THEN 1 ELSE 2 * Pow2(n - 1)

RECURSIVE BNorm(_)
BNorm(a) == IF a = <<>> THEN <<>>
            ELSE IF a[Len(a)] = 0 THEN BNorm(SubSeq(a, 1, Len(a) - 1)) ELSE a

RECURSIVE BFromInt(_)
BFromInt(n) == IF n = 0 THEN <<>> ELSE <<n % BASE>> \o BFromInt(n \div BASE)

Limb(a, i) == IF i <= Len(a) THEN a[i] ELSE 0

RECURSIVE BAddFrom(_, _, _, _)
BAddFrom(a, b, i, c) ==
    IF i > Len(a) /\ i > Len(b)
    THEN (IF c = 0 THEN <<>> ELSE <<c>>)
    ELSE LET t == Limb(a, i) + Limb(b, i) + c
         IN  <<t % BASE>> \o BAddFrom(a, b, i + 1, t \div BASE)
BAdd(a, b) == BAddFrom(a, b, 1, 0)

\* a - b for a >= b
RECURSIVE BSubFrom(_, _, _, _)
BSubFrom(a, b, i, br) ==
    IF i > Len(a) THEN <<>>
    ELSE LET t == Limb(a, i) - Limb(b, i) - br
         IN  IF t < 0 THEN <<t + BASE>> \o BSubFrom(a, b, i + 1, 1)
                      ELSE <<t>> \o BSubFrom(a, b, i + 1, 0)
BSub(a, b) == BNorm(BSubFrom(a, b, 1, 0))

\* -1, 0 or 1 as a < b, a = b, a > b
RECURSIVE BCmpFrom(_, _, _)
BCmpFrom(a, b, i) ==
    IF i = 0 THEN 0
    ELSE IF a[i] < b[i] THEN -1
    ELSE IF a[i] > b[i] THEN 1
    ELSE BCmpFrom(a, b, i - 1)
BCmp(a, b) == IF Len(a) < Len(b) THEN -1
              ELSE IF Len(a) > Len(b) THEN 1
              ELSE BCmpFrom(a, b, Len(a))

\* a * k for a limb k
RECURSIVE BMulSmallFrom(_, _, _, _)
BMulSmallFrom(a, k, i, c) ==
    IF i > Len(a) THEN (IF c = 0 THEN <<>> ELSE <<c>>)
    ELSE LET t == a[i] * k + c
         IN  <<t % BASE>> \o BMulSmallFrom(a, k, i + 1, t \div BASE)
BMulSmall(a, k) == IF k = 0 THEN <<>> ELSE BMulSmallFrom(a, k, 1, 0)

RECURSIVE BitLenInt(_)
BitLenInt(n) == IF n = 0 THEN 0 ELSE 1 + BitLenInt(n \div 2)
BBitLen(a) == IF a = <<>> THEN 0 ELSE LIMB_BITS * (Len(a) - 1) + BitLenInt(a[Len(a)])

Zeros(q) == [i \in 1..q |-> 0]

\* a * 2^s
BShl(a, s) == IF a = <<>> THEN <<>>
              ELSE Zeros(s \div LIMB_BITS) \o BMulSmall(a, Pow2(s % LIMB_BITS))

\* floor(a / 2^s)
BShr(a, s) ==
    LET q  == s \div LIMB_BITS
        r  == s % LIMB_BITS
        d  == IF q >= Len(a) THEN <<>> ELSE SubSeq(a, q + 1, Len(a))
        p  == Pow2(r)
        hi == Pow2(LIMB_BITS - r)
    IN  BNorm([i \in 1..Len(d) |-> (d[i] \div p) + (Limb(d, i + 1) % p) * hi])

\* bit i of a, bit 0 the lowest
Bit(a, i) == (Limb(a, (i \div LIMB_BITS) + 1) \div Pow2(i % LIMB_BITS)) % 2

\* a mod 2^s = 0
LowZero(a, s) == \A i \in 0..(s - 1) : Bit(a, i) = 0

RECURSIVE TrailingZerosFrom(_, _)
TrailingZerosFrom(a, i) == IF Bit(a, i) = 1 THEN i ELSE TrailingZerosFrom(a, i + 1)
\* the number of low zero bits of a # 0
TrailingZeros(a) == TrailingZerosFrom(a, 0)

RECURSIVE BMulFrom(_, _, _)
BMulFrom(a, b, i) ==
    IF i > Len(b) THEN <<>>
    ELSE BAdd(Zeros(i - 1) \o BMulSmall(a, b[i]), BMulFrom(a, b, i + 1))
BMul(a, b) == BNorm(BMulFrom(a, b, 1))

\* a divided by the limb k, from limb i of a down, r the remainder so far
RECURSIVE BDivSmallFrom(_, _, _, _)
BDivSmallFrom(a, k, i, r) ==
    IF i = 0 THEN [q |-> <<>>, r |-> r]
    ELSE LET t    == r * BASE + a[i]
             rest == BDivSmallFrom(a, k, i - 1, t % k)
         IN  [q |-> Append(rest.q, t \div k), r |-> rest.r]
BDivSmall(a, k) ==
    LET d == BDivSmallFrom(a, k, Len(a), 0)
    IN  [q |-> BNorm(d.q), r |-> BFromInt(d.r)]

\* the quotient limb floor(r / b), for r < b * BASE and b's top limb >= BASE / 2:
\* the estimate from the top limbs is never too small and at most 2 too large
RECURSIVE QFix(_, _, _)
QFix(r, b, d) == IF BCmp(BMulSmall(b, d), r) > 0 THEN QFix(r, b, d - 1) ELSE d
QDigit(r, b) ==
    LET n   == Len(b)
        est == (Limb(r, n + 1) * BASE + Limb(r, n)) \div b[n]
    IN  QFix(r, b, IF est > BASE - 1 THEN BASE - 1 ELSE est)

\* one step of the long division: the remainder so far up.r, extended by the limb x
BDivOne(x, b, up) ==
    The({ The({ [q |-> <<d>> \o up.q, r |-> BSub(r2, BMulSmall(b, d))] :
                  d \in {QDigit(r2, b)} }) :
            r2 \in {BNorm(<<x>> \o up.r)} })

\* schoolbook long division, one quotient limb at a time, from the top limb of a
\* down to limb i
RECURSIVE BDivLong(_, _, _)
BDivLong(a, b, i) ==
    IF i > Len(a) THEN [q |-> <<>>, r |-> <<>>]
    ELSE The({ BDivOne(a[i], b, up) : up \in {BDivLong(a, b, i + 1)} })

\* a divided by b # 0: q the quotient, r = <<>> iff the division is exact
BDivMod(a, b) ==
    IF Len(b) = 1 THEN BDivSmall(a, b[1])
    ELSE LET sh == LIMB_BITS - BitLenInt(b[Len(b)])
             d  == BDivLong(BShl(a, sh), BShl(b, sh), 1)
         IN  [q |-> BNorm(d.q), r |-> d.r]

(***************************************************************************)
(* Python float (IEEE-754 binary64): [s, m, e] is (-1)^s * m * 2^e with m  *)
(* a natural of exactly MANT_BITS bits, or m = <<>> for 0.0.  The amounts  *)
(* of the model stay far from the subnormal and overflow ranges.           *)
(***************************************************************************)
MANT_BITS == 53

FZero == [s |-> 0, m |-> <<>>, e |-> 0]

\* the float nearest to (-1)^s * (n + f) * 2^e, ties to even, where 0 <= f < 1
\* and f > 0 iff sticky
FRound(s, n, e, sticky) ==
    LET len == BBitLen(n) IN
    IF len = 0 THEN FZero
    ELSE IF len <= MANT_BITS
    THEN [s |-> s, m |-> BShl(n, MANT_BITS - len), e |-> e - (MANT_BITS - len)]
    ELSE LET d     == len - MANT_BITS
             q     == BShr(n, d)
             guard == Bit(n, d - 1)
             rest  == sticky \/ ~LowZero(n, d - 1)
             up    == guard = 1 /\ (rest \/ Bit(q, 0) = 1)
             q1    == IF up THEN BAdd(q, <<1>>) ELSE q
         IN  IF BBitLen(q1) > MANT_BITS
             THEN [s |-> s, m |-> BShr(q1, 1), e |-> e + d + 1]
             ELSE [s |-> s, m |-> q1, e |-> e + d]

\* float(n) for an integer n
FFromInt(n) == IF n < 0 THEN FRound(1, BFromInt(-n), 0, FALSE)
               ELSE FRound(0, BFromInt(n), 0, FALSE)

FNeg(x) == IF x.m = <<>> THEN x ELSE [x EXCEPT !.s = 1 - x.s]
FAbs(x) == [x EXCEPT !.s = 0]
\* -1, 0 or 1 as x < 0, x = 0, x > 0
FSign(x) == IF x.m = <<>> THEN 0 ELSE IF x.s = 1 THEN -1 ELSE 1

FAddV(x, y) ==
    IF x.m = <<>> THEN y
    ELSE IF y.m = <<>> THEN x
    ELSE LET e  == IF x.e < y.e THEN x.e ELSE y.e
             nx == BShl(x.m, x.e - e)
             ny == BShl(y.m, y.e - e)
         IN  IF x.s = y.s THEN FRound(x.s, BAdd(nx, ny), e, FALSE)
             ELSE LET c == BCmp(nx, ny)
                  IN  IF c = 0 THEN FZero
                      ELSE IF c > 0 THEN FRound(x.s, BSub(nx, ny), e, FALSE)
                      ELSE FRound(y.s, BSub(ny, nx), e, FALSE)
\* x + y
FAdd(x0, y0) == The({ FAddV(x, y) : x \in {x0}, y \in {y0} })
\* x - y
FSub(x0, y0) == The({ FAddV(x, FNeg(y)) : x \in {x0}, y \in {y0} })

\* extra quotient bits, so that the quotient has guard and round bits to spare
DIV_EXTRA == 60
FDivV(x, y) ==
    IF x.m = <<>> THEN FZero
    ELSE LET tz == TrailingZeros(y.m)
             d  == BDivMod(BShl(x.m, DIV_EXTRA), BShr(y.m, tz))
         IN  FRound(IF x.s = y.s THEN 0 ELSE 1, d.q,
                    x.e - y.e - tz - DIV_EXTRA, d.r # <<>>)
\* x / y for y # 0
FDiv(x0, y0) == The({ FDivV(x, y) : x \in {x0}, y \in {y0} })

FMulV(x, y) ==
    IF x.m = <<>> \/ y.m = <<>> THEN FZero
    ELSE FRound(IF x.s = y.s THEN 0 ELSE 1, BMul(x.m, y.m), x.e + y.e, FALSE)
\* x * y
FMul(x0, y0) == The({ FMulV(x, y) : x \in {x0}, y \in {y0} })

\* x * 2^k, exact
FScale(x, k) == IF x.m = <<>> THEN x ELSE [x EXCEPT !.e = x.e + k]

\* x <= y
FLeq(x0, y0) == The({ FSign(FAddV(x, FNeg(y))) <= 0 : x \in {x0}, y \in {y0} })

(***************************************************************************)
(* Program constants and strings.                                          *)
(***************************************************************************)
USDC_ZERO_ID == "0"
DECIMALS == 1000000
DEFAULT_YES_TOKEN ==
    "73817598408230683831072353847770809458837920203753987347670649717002095543451"
DEFAULT_NO_TOKEN ==
    "102505737677514435038431832532030540090751572260157019042399710777845176913904"

\* str.startswith
StartsWith(s, p) == Len(s) >= Len(p) /\ SubSeq(s, 1, Len(p)) = p

\* s[n:]
DropChars(s, n) == IF n >= Len(s) THEN "" ELSE SubSeq(s, n + 1, Len(s))

\* Python truthiness of an optional string argument: None and "" are both false;
\* an absent argument (None) is the empty string here
Truthy(s) == s # ""

DigitVal == [c \in {"0", "1", "2", "3", "4", "5", "6", "7", "8", "9"} |->
               CASE c = "0" -> 0 [] c = "1" -> 1 [] c = "2" -> 2 [] c = "3" -> 3
                 [] c = "4" -> 4 [] c = "5" -> 5 [] c = "6" -> 6 [] c = "7" -> 7
                 [] c = "8" -> 8 [] c = "9" -> 9]

RECURSIVE IsDigits(_)
IsDigits(s) == s = "" \/ (Head(s) \in DOMAIN DigitVal /\ IsDigits(Tail(s)))

\* the value of a string of decimal digits, n the value of the digits read so far
RECURSIVE DigitsValue(_, _)
DigitsValue(s, n) == IF s = "" THEN n
                     ELSE DigitsValue(Tail(s), 10 * n + DigitVal[Head(s)])

\* pd.to_numeric(col, errors="coerce").fillna(0).astype("int64") on one cell: a
\* decimal integer literal parses, anything else (here: any other string) is NaN,
\* filled with 0
to_int64(s) == IF s # "" /\ IsDigits(s) THEN DigitsValue(s, 0) ELSE 0

(***************************************************************************)
(* On-chain derivation of the token ids.  Bytes are lowercase hex strings, *)
(* two characters a byte.  keccak256 is an uninterpreted injective         *)
(* function: its value is the term that names its argument.                *)
(***************************************************************************)
LowerHex == [c \in {"0", "1", "2", "3", "4", "5", "6", "7", "8", "9",
                    "a", "b", "c", "d", "e", "f", "A", "B", "C", "D", "E", "F"} |->
               CASE c = "A" -> "a" [] c = "B" -> "b" [] c = "C" -> "c"
                 [] c = "D" -> "d" [] c = "E" -> "e" [] c = "F" -> "f"
                 [] OTHER -> c]

RECURSIVE IsHex(_)
IsHex(s) == s = "" \/ (Head(s) \in DOMAIN LowerHex /\ IsHex(Tail(s)))

RECURSIVE Lower(_)
Lower(s) == IF s = "" THEN "" ELSE LowerHex[Head(s)] \o Lower(Tail(s))

\* bytes.fromhex(h): ok iff h is an even number of hex digits (ValueError otherwise)
fromhex_ok(h) == IsHex(h) /\ Len(h) % 2 = 0
fromhex(h) == Lower(h)
ByteLen(b) == Len(b) \div 2

RECURSIVE ZeroBytes(_)
ZeroBytes(n) == IF n = 0 THEN "" ELSE "00" \o ZeroBytes(n - 1)

keccak256(data) == "keccak256(" \o data \o ")"

\* n.to_bytes(32, "big") for 0 <= n < 16
to_uint256_be(n) ==
    ZeroBytes(31) \o "0" \o
    (CASE n < 10 -> The({c \in DOMAIN DigitVal : DigitVal[c] = n})
       [] n = 10 -> "a" [] n = 11 -> "b" [] n = 12 -> "c"
       [] n = 13 -> "d" [] n = 14 -> "e" [] n = 15 -> "f")

Strip0x(h) == IF StartsWith(h, "0x") THEN DropChars(h, 2) ELSE h

hexstr_to_bytes32_ok(h) == fromhex_ok(Strip0x(h))
hexstr_to_bytes32(h) ==
    LET b == fromhex(Strip0x(h))
    IN  IF ByteLen(b) >= 32 THEN b ELSE ZeroBytes(32 - ByteLen(b)) \o b

\* address_to_bytes raises ValueError on bad hex and on a length other than 20
address_to_bytes_ok(addr) ==
    fromhex_ok(Strip0x(addr)) /\ ByteLen(fromhex(Strip0x(addr))) = 20
address_to_bytes(addr) == fromhex(Strip0x(addr))

\* whether derive_position_id returns (no exception): hexstr_to_bytes32, then the
\* import of sha3 inside keccak256, then address_to_bytes
derive_position_id_ok(condition_id, collateral, sha3) ==
    hexstr_to_bytes32_ok(condition_id) /\ sha3 /\ address_to_bytes_ok(collateral)

\* str(derive_position_id(...)): the decimal string of the hash, here its term
derive_position_id(condition_id, outcome_index, collateral) ==
    LET parent        == ZeroBytes(32)
        cond          == hexstr_to_bytes32(condition_id)
        index_set     == to_uint256_be(Pow2(outcome_index))
        collection_id == keccak256(parent \o cond \o index_set)
    IN  keccak256(address_to_bytes(collateral) \o collection_id)

\* determine_token_ids: <<yes, no>>.  The fills (df) are a parameter of the source
\* function that its body never reads.
determine_token_ids(a, sha3) ==
    IF Truthy(a.yes_token) /\ Truthy(a.no_token)
    THEN <<a.yes_token, a.no_token>>
    ELSE IF Truthy(a.condition) /\ Truthy(a.collateral)
            /\ derive_position_id_ok(a.condition, a.collateral, sha3)
    THEN <<derive_position_id(a.condition, a.yes_index, a.collateral),
           derive_position_id(a.condition, a.no_index, a.collateral)>>
    ELSE <<DEFAULT_YES_TOKEN, DEFAULT_NO_TOKEN>>

(***************************************************************************)
(* infer_token_ids_from_file: defined in the source, called from nowhere.  *)
(***************************************************************************)
Count(seq, x) == Cardinality({i \in 1..Len(seq) : seq[i] = x})
FirstIndex(seq, x) == CHOOSE i \in 1..Len(seq) :
                          seq[i] = x /\ \A j \in 1..(i - 1) : seq[j] # x

\* value_counts().index.tolist(): the distinct values, most frequent first, equal
\* counts in order of first appearance
value_counts(seq) ==
    LET vals == {seq[i] : i \in 1..Len(seq)}
        Before(a, b) == \/ Count(seq, a) > Count(seq, b)
                        \/ /\ Count(seq, a) = Count(seq, b)
                           /\ FirstIndex(seq, a) < FirstIndex(seq, b)
        Rank(a) == 1 + Cardinality({b \in vals : Before(b, a)})
    IN  [k \in 1..Cardinality(vals) |-> CHOOSE a \in vals : Rank(a) = k]

\* <<yes, no>>, or <<>> for None
infer_token_ids_from_file(d) ==
    LET assets == [i \in 1..Len(d) |-> d[i].makerAssetId]
                  \o [i \in 1..Len(d) |-> d[i].takerAssetId]
        uniq   == value_counts(SelectSeq(assets, LAMBDA a : a # USDC_ZERO_ID))
    IN  IF Len(uniq) >= 2
        THEN LET is_no(a) == StartsWith(a, "1025")
             IN  IF is_no(uniq[1]) /\ ~is_no(uniq[2]) THEN <<uniq[2], uniq[1]>>
                 ELSE IF is_no(uniq[2]) /\ ~is_no(uniq[1]) THEN <<uniq[1], uniq[2]>>
                 ELSE <<uniq[1], uniq[2]>>
        ELSE <<>>

(***************************************************************************)
(* clean_trades.                                                           *)
(***************************************************************************)
\* the numeric casts of one row
numeric_casts(r) ==
    [r EXCEPT !.timestamp = to_int64(r.timestamp),
              !.makerAmountFilled = to_int64(r.makerAmountFilled),
              !.takerAmountFilled = to_int64(r.takerAmountFilled)]

\* keep only token<->USDC fills
\* a faulty mask that C5 rejects: a market token on either side is enough
mask_any_token(r, yes, no) ==
    r.makerAssetId \in {yes, no} \/ r.takerAssetId \in {yes, no}

mask_token_usdc(r, yes, no) ==
    LET TOKENS == {yes, no}
        maker_is_token == r.makerAssetId \in TOKENS
        taker_is_token == r.takerAssetId \in TOKENS
        maker_is_usdc  == r.makerAssetId = USDC_ZERO_ID
        taker_is_usdc  == r.takerAssetId = USDC_ZERO_ID
    IN  (maker_is_token /\ taker_is_usdc) \/ (taker_is_token /\ maker_is_usdc)

\* df[mask_token_usdc] after the numeric casts
filter_fills(d, yes, no) ==
    SelectSeq([i \in 1..Len(d) |-> numeric_casts(d[i])],
              LAMBDA r : mask_token_usdc(r, yes, no))

\* sort_values("timestamp"): ascending, rows of equal timestamp in their input
\* order (numpy sorts arrays this short by insertion)
sort_values(rows) ==
    LET n == Len(rows)
        Pos(i) == 1 + Cardinality({j \in 1..n : rows[j].timestamp < rows[i].timestamp})
                    + Cardinality({j \in 1..(i - 1) :
                                     rows[j].timestamp = rows[i].timestamp})
    IN  [k \in 1..n |-> rows[CHOOSE i \in 1..n : Pos(i) = k]]

\* sort_values("timestamp", ascending=False), equal timestamps in their input order
\* a faulty final ordering that C7 rejects: oldest first
sort_values_oldest_first(rows) ==
    LET n == Len(rows)
        Pos(i) == 1 + Cardinality({j \in 1..n : rows[j].timestamp < rows[i].timestamp})
                    + Cardinality({j \in 1..(i - 1) :
                                     rows[j].timestamp = rows[i].timestamp})
    IN  [k \in 1..n |-> rows[CHOOSE i \in 1..n : Pos(i) = k]]

sort_values_desc(rows) ==
    LET n == Len(rows)
        Pos(i) == 1 + Cardinality({j \in 1..n : rows[j].timestamp > rows[i].timestamp})
                    + Cardinality({j \in 1..(i - 1) :
                                     rows[j].timestamp = rows[i].timestamp})
    IN  [k \in 1..n |-> rows[CHOOSE i \in 1..n : Pos(i) = k]]

CharRank == [c \in {"0", "1", "2", "3", "4", "5", "6", "7", "8", "9",
                    "a", "b", "c", "d", "e", "f", "x"} |->
               CASE c = "x" -> 16 [] c = "a" -> 10 [] c = "b" -> 11 [] c = "c" -> 12
                 [] c = "d" -> 13 [] c = "e" -> 14 [] c = "f" -> 15
                 [] OTHER -> DigitVal[c]]

\* a < b for strings over 0-9, a-f and x
RECURSIVE StrLess(_, _)
StrLess(a, b) ==
    IF b = "" THEN FALSE
    ELSE IF a = "" THEN TRUE
    ELSE IF Head(a) = Head(b) THEN StrLess(Tail(a), Tail(b))
    ELSE CharRank[Head(a)] < CharRank[Head(b)]

\* groupby("transactionHash"): the distinct hashes, ascending
group_keys(rows) ==
    LET keys == {rows[i].transactionHash : i \in 1..Len(rows)}
        Rank(a) == 1 + Cardinality({b \in keys : StrLess(b, a)})
    IN  [k \in 1..Cardinality(keys) |-> CHOOSE a \in keys : Rank(a) = k]

\* the rows of one group, in the order of the sorted frame
group_of(rows, key) == SelectSeq(rows, LAMBDA r : r.transactionHash = key)

\* amount / DECIMALS: int64 by int, true division in float64
to_units(amount) == FDiv(FFromInt(amount), FFromInt(DECIMALS))
\* the quotients of the amounts the fill files below hold, computed once
UnitsMemo == [a \in {0, 60000, 100000, 200000, 300000, 2000000, 2400000, 4000000,
                      5000000, 6000000, 10000000} |-> to_units(a)]
units(amount) == IF amount \in DOMAIN UnitsMemo THEN UnitsMemo[amount]
                 ELSE to_units(amount)

\* a faulty loop body that C1 rejects: the token leg always adds to the net
canon_fill_gross(acc, fill, token_id, perspective) ==
    IF fill.makerAssetId = token_id
    THEN [net_tokens        |-> FAdd(acc.net_tokens, units(fill.makerAmountFilled)),
          total_usdc_volume |-> FAdd(acc.total_usdc_volume, units(fill.takerAmountFilled))]
    ELSE [net_tokens        |-> FAdd(acc.net_tokens, units(fill.takerAmountFilled)),
          total_usdc_volume |-> FAdd(acc.total_usdc_volume, units(fill.makerAmountFilled))]

\* one iteration of the loop over token_fills: acc = [net_tokens, total_usdc_volume]
canon_fill(acc, fill, token_id, perspective) ==
    IF fill.makerAssetId = token_id
    THEN \* token on maker side
         IF perspective = "taker"
         THEN [net_tokens        |-> FAdd(acc.net_tokens, units(fill.makerAmountFilled)),
               total_usdc_volume |-> FAdd(acc.total_usdc_volume,
                                          units(fill.takerAmountFilled))]
         ELSE [net_tokens        |-> FSub(acc.net_tokens, units(fill.makerAmountFilled)),
               total_usdc_volume |-> FAdd(acc.total_usdc_volume,
                                          units(fill.takerAmountFilled))]
    ELSE \* token on taker side
         IF perspective = "taker"
         THEN [net_tokens        |-> FSub(acc.net_tokens, units(fill.takerAmountFilled)),
               total_usdc_volume |-> FAdd(acc.total_usdc_volume,
                                          units(fill.makerAmountFilled))]
         ELSE [net_tokens        |-> FAdd(acc.net_tokens, units(fill.takerAmountFilled)),
               total_usdc_volume |-> FAdd(acc.total_usdc_volume,
                                          units(fill.makerAmountFilled))]

\* the loop over the first n rows of token_fills, from net_tokens = 0 and
\* total_usdc_volume = 0
RECURSIVE canon_fills(_, _, _, _)
canon_fills(token_fills, n, token_id, perspective) ==
    IF n = 0 THEN [net_tokens |-> FZero, total_usdc_volume |-> FZero]
    ELSE The({ canon_fill(acc, token_fills[n], token_id, perspective) :
                 acc \in {canon_fills(token_fills, n - 1, token_id, perspective)} })

RECURSIVE MaxTimestamp(_, _)
MaxTimestamp(g, n) ==
    IF n = 1 THEN g[1].timestamp
    ELSE LET m == MaxTimestamp(g, n - 1)
         IN  IF g[n].timestamp > m THEN g[n].timestamp ELSE m

\* Python None
PyNone == [none |-> TRUE]

\* the timestamp of the rows canon_group emits: int(g["timestamp"].max())
row_timestamp(g, token_fills) == MaxTimestamp(g, Len(g))

\* the side of a nonzero net position change
side_of(net_tokens) == IF FSign(net_tokens) > 0 THEN "BUY" ELSE "SELL"

\* the wallet of the rows canon_group emits
\* a faulty wallet choice that C3 rejects: the taker whatever the perspective
proxy_wallet_taker(g, perspective) == g[1].taker

proxy_wallet(g, perspective) == IF perspective = "maker" THEN g[1].maker ELSE g[1].taker

\* a faulty price that C6 rejects: size over volume
price_inverted(total_usdc_volume, size_tokens) ==
    IF FSign(size_tokens) > 0 THEN FDiv(size_tokens, total_usdc_volume) ELSE PyNone

\* price = (total_usdc_volume / size_tokens) if size_tokens > 0 else None
price_of(total_usdc_volume, size_tokens) ==
    IF FSign(size_tokens) > 0 THEN FDiv(total_usdc_volume, size_tokens) ELSE PyNone

\* the body of the loop over [YES_TOKEN, NO_TOKEN] for one token: the rows it
\* appends to results (one or none)
canon_token(g, token_id, yes, perspective) ==
    LET token_fills == SelectSeq(g, LAMBDA f : f.makerAssetId = token_id
                                               \/ f.takerAssetId = token_id)
    IN  IF token_fills = <<>> THEN <<>>
        ELSE The({ IF FSign(acc.net_tokens) = 0 THEN <<>>
                   ELSE The({ <<[transactionHash |-> g[1].transactionHash,
                                 timestamp       |-> row_timestamp(g, token_fills),
                                 side            |-> side_of(acc.net_tokens),
                                 outcome         |-> IF token_id = yes THEN "Yes" ELSE "No",
                                 price           |-> price_of(acc.total_usdc_volume,
                                                              size_tokens),
                                 size            |-> size_tokens,
                                 volume_usdc     |-> acc.total_usdc_volume,
                                 asset           |-> token_id,
                                 proxyWallet     |-> proxy_wallet(g, perspective)]>> :
                                size_tokens \in {FAbs(acc.net_tokens)} }) :
                   acc \in {canon_fills(token_fills, Len(token_fills),
                                        token_id, perspective)} })

\* canon_group: the rows of one transaction, the Yes token first
canon_group(g, yes, no, perspective) ==
    canon_token(g, yes, yes, perspective) \o canon_token(g, no, yes, perspective)

\* clean_trades as a function of its arguments: [ok, rows] with the returned frame,
\* or ok = FALSE and the exception it raises
clean_trades(d, yes, no, perspective) ==
    LET k == filter_fills(d, yes, no) IN
    IF k = <<>> THEN [ok |-> FALSE, raised |-> "RuntimeError", rows |-> <<>>]
    ELSE LET sorted == sort_values(k)
             keys   == group_keys(sorted)
             Apply[i \in 0..Len(keys)] ==
                 IF i = 0 THEN <<>>
                 ELSE Apply[i - 1] \o canon_group(group_of(sorted, keys[i]),
                                                  yes, no, perspective)
             applied == Apply[Len(keys)]
         IN  IF applied = <<>>
             THEN [ok |-> FALSE, raised |-> "KeyError", rows |-> <<>>]
             ELSE [ok |-> TRUE, raised |-> "", rows |-> sort_values_desc(applied)]

(***************************************************************************)
(* The inputs: command lines and fill files.                               *)
(***************************************************************************)
\* most rows of a fill file
MaxFills == 2
\* most rows of a fill file of the netting family
NetFills == 3

TX1 == "0xa1"
TX2 == "0xb2"
\* the id of an outcome token of some other market
OTHER_TOKEN == "424242"
GOOD_CONDITION == "0x6220c4164a293367cd40eba018dd6e67c78e4d48e74158845cc9361230bcb34d"
GOOD_COLLATERAL == "0x2791Bca1f2de4661ED88A30C99A7a9449Aa84174"

Fill(tx, ts, maker, taker, ma, mamt, ta, tamt) ==
    [timestamp |-> ts, transactionHash |-> tx, maker |-> maker, taker |-> taker,
     makerAssetId |-> ma, makerAmountFilled |-> mamt,
     takerAssetId |-> ta, takerAmountFilled |-> tamt]

SeqsUpTo(S, n) == UNION {[1..k -> S] : k \in 0..n}

NoArgs(perspective) ==
    [yes_token |-> "", no_token |-> "", condition |-> "", collateral |-> "",
     yes_index |-> 0, no_index |-> 1, perspective |-> perspective]

\* every pairing of asset ids on the two sides of a fill
FilterFills == { Fill(TX1, "100", "0xm1", "0xt1", ma, "5000000", ta, "2000000") :
                   ma \in {USDC_ZERO_ID, DEFAULT_YES_TOKEN, DEFAULT_NO_TOKEN, OTHER_TOKEN},
                   ta \in {USDC_ZERO_ID, DEFAULT_YES_TOKEN, DEFAULT_NO_TOKEN, OTHER_TOKEN} }

\* two transactions, two timestamps (each with its own wallets), three kinds of fill
TimeFills ==
    LET Wallets(ts) == IF ts = "100" THEN <<"0xm1", "0xt1">> ELSE <<"0xm2", "0xt2">>
    IN  UNION { { Fill(tx, ts, Wallets(ts)[1], Wallets(ts)[2],
                       DEFAULT_YES_TOKEN, "10000000", USDC_ZERO_ID, "6000000"),
                  Fill(tx, ts, Wallets(ts)[1], Wallets(ts)[2],
                       USDC_ZERO_ID, "2400000", DEFAULT_YES_TOKEN, "4000000"),
                  Fill(tx, ts, Wallets(ts)[1], Wallets(ts)[2],
                       DEFAULT_NO_TOKEN, "5000000", USDC_ZERO_ID, "2000000") } :
                tx \in {TX1, TX2}, ts \in {"100", "200"} }

\* one transaction, one token, amounts that net against each other; "n/a" is a
\* cell that does not parse
NetFillSet ==
    { Fill(TX1, "100", "0xm1", "0xt1", DEFAULT_YES_TOKEN, amt, USDC_ZERO_ID, "60000") :
        amt \in {"100000", "200000", "300000", "n/a"} }
    \cup
    { Fill(TX1, "100", "0xm1", "0xt1", USDC_ZERO_ID, "60000", DEFAULT_YES_TOKEN, amt) :
        amt \in {"100000", "200000", "300000"} }

\* the command lines that name a token source, with a file of at most one fill
ResolveArgs ==
    [yes_token : {"", DEFAULT_YES_TOKEN, OTHER_TOKEN},
     no_token : {"", DEFAULT_NO_TOKEN, OTHER_TOKEN},
     condition : {"", GOOD_CONDITION, "0xnothex"},
     collateral : {"", GOOD_COLLATERAL, "0x2791", "0xnothex"},
     yes_index : {0}, no_index : {1}, perspective : {"taker", "maker"}]
ResolveFills ==
    { Fill(TX1, "100", "0xm1", "0xt1", DEFAULT_YES_TOKEN, "10000000", USDC_ZERO_ID, "6000000"),
      Fill(TX1, "100", "0xm1", "0xt1", USDC_ZERO_ID, "2000000", OTHER_TOKEN, "5000000"),
      Fill(TX2, "200", "0xm2", "0xt2", OTHER_TOKEN, "5000000", DEFAULT_NO_TOKEN, "2000000") }

\* query_polymarket.py is not running
BackfillIdle ==
    /\ source = {}
    /\ yes_no_ids = <<>>
    /\ qpc = "idle"
    /\ query = ""
    /\ cursor = 0
    /\ seen = {}
    /\ written = <<>>
    /\ loop_total = 0
    /\ total = 0

Init ==
    /\ BackfillIdle
    /\ \/ /\ args \in {NoArgs(p) : p \in {"taker", "maker"}}
          /\ sha3_installed = TRUE
          /\ df \in SeqsUpTo(FilterFills, MaxFills) \cup SeqsUpTo(TimeFills, MaxFills)
                    \cup SeqsUpTo(NetFillSet, NetFills)
       \/ /\ args \in ResolveArgs
          /\ sha3_installed \in BOOLEAN
          /\ df \in SeqsUpTo(ResolveFills, 1)
    /\ pc = "start"
    /\ err = ""
    /\ YES_TOKEN = ""
    /\ NO_TOKEN = ""
    /\ kept = <<>>
    /\ todo = <<>>
    /\ results = <<>>
    /\ out = <<>>
    /\ csv = [written |-> FALSE, rows |-> <<>>]

(***************************************************************************)
(* The steps of main().                                                    *)
(***************************************************************************)
\* YES_TOKEN, NO_TOKEN = determine_token_ids(df, args)
DetermineTokenIds ==
    /\ pc = "start"
    /\ LET t == determine_token_ids(args, sha3_installed)
       IN  YES_TOKEN' = t[1] /\ NO_TOKEN' = t[2]
    /\ pc' = "resolved"
    /\ UNCHANGED <<args, sha3_installed, df, err, kept, todo, results, out, csv>>
    /\ UNCHANGED backfillVars

\* a faulty filter step that C10 rejects: an empty result is passed on
FilterStepNoRaise ==
    /\ pc = "resolved"
    /\ kept' = filter_fills(df, YES_TOKEN, NO_TOKEN)
    /\ pc' = "filtered"
    /\ UNCHANGED <<args, sha3_installed, df, err, YES_TOKEN, NO_TOKEN, todo, results, out, csv>>
    /\ UNCHANGED backfillVars

\* clean_trades, to the raise: casts, mask, df = df[mask_token_usdc], df.empty
FilterStep ==
    /\ pc = "resolved"
    /\ LET k == filter_fills(df, YES_TOKEN, NO_TOKEN)
       IN  IF k = <<>>
           THEN pc' = "failed" /\ err' = "RuntimeError" /\ kept' = kept
           ELSE pc' = "filtered" /\ err' = err /\ kept' = k
    /\ UNCHANGED <<args, sha3_installed, df, YES_TOKEN, NO_TOKEN, todo, results, out, csv>>
    /\ UNCHANGED backfillVars

\* df.sort_values("timestamp").groupby("transactionHash", group_keys=False)
SortAndGroup ==
    /\ pc = "filtered"
    /\ kept' = sort_values(kept)
    /\ todo' = group_keys(kept)
    /\ pc' = "grouping"
    /\ UNCHANGED <<args, sha3_installed, df, err, YES_TOKEN, NO_TOKEN, results, out, csv>>
    /\ UNCHANGED backfillVars

\* .apply(canon_group): the next group, its rows appended to the result
CanonGroup ==
    /\ pc = "grouping"
    /\ todo # <<>>
    /\ results' = results \o canon_group(group_of(kept, Head(todo)),
                                         YES_TOKEN, NO_TOKEN, args.perspective)
    /\ todo' = Tail(todo)
    /\ UNCHANGED <<args, sha3_installed, df, pc, err, YES_TOKEN, NO_TOKEN, kept, out, csv>>
    /\ UNCHANGED backfillVars

\* the rest of clean_trades: out["timestamp"] (a KeyError on a frame without
\* columns, which is what apply returns when no group gave a row) and the sort
Materialize ==
    /\ pc = "grouping"
    /\ todo = <<>>
    /\ IF results = <<>>
       THEN pc' = "failed" /\ err' = "KeyError" /\ out' = out
       ELSE pc' = "cleaned" /\ err' = err /\ out' = sort_values_desc(results)
    /\ UNCHANGED <<args, sha3_installed, df, YES_TOKEN, NO_TOKEN, kept, todo, results, csv>>
    /\ UNCHANGED backfillVars

\* cleaned.to_csv(args.out_path, index=False)
WriteCsv ==
    /\ pc = "cleaned"
    /\ csv' = [written |-> TRUE, rows |-> out]
    /\ pc' = "done"
    /\ UNCHANGED <<args, sha3_installed, df, err, YES_TOKEN, NO_TOKEN, kept, todo, results, out>>
    /\ UNCHANGED backfillVars

Next == \/ DetermineTokenIds
        \/ FilterStep
        \/ SortAndGroup
        \/ CanonGroup
        \/ Materialize
        \/ WriteCsv

Spec == Init /\ [][Next]_vars

(***************************************************************************)
(* query_polymarket.py: main() resolves the market's two token ids, then   *)
(* runs backfill_loop twice over the subgraph's order-fill events, first   *)
(* on makerAssetId, then on takerAssetId, with one seen set and one        *)
(* writer.  Each request returns the FIRST newest events older than the    *)
(* cursor.                                                                 *)
(***************************************************************************)
\* page size of a request (1000 in the source)
FIRST == 2
\* the cursor a loop starts from, above every timestamp (2_000_000_000 in the source)
CURSOR_START == 300
\* the most events the subgraph holds
MaxEvents == 4

Q_MAKER == "Q_MAKER"
Q_TAKER == "Q_TAKER"

\* an orderFilledEvents entity, as the JSON of a page gives it (timestamp a string)
Event(id, ts, ma, ta) ==
    [id |-> id, timestamp |-> ts, makerAssetId |-> ma, takerAssetId |-> ta]

EventUniverse ==
    { Event("a1", "200", DEFAULT_YES_TOKEN, USDC_ZERO_ID),
      Event("a2", "200", DEFAULT_NO_TOKEN, USDC_ZERO_ID),
      Event("a3", "200", DEFAULT_YES_TOKEN, USDC_ZERO_ID),
      Event("c1", "290", DEFAULT_YES_TOKEN, DEFAULT_NO_TOKEN),
      Event("c2", "280", DEFAULT_NO_TOKEN, DEFAULT_YES_TOKEN),
      Event("b1", "270", USDC_ZERO_ID, DEFAULT_YES_TOKEN),
      Event("b2", "100", USDC_ZERO_ID, DEFAULT_NO_TOKEN),
      Event("z1", "0", DEFAULT_YES_TOKEN, USDC_ZERO_ID),
      Event("o1", "200", OTHER_TOKEN, USDC_ZERO_ID) }

\* int(r["timestamp"]): whether it parses, and its value
py_int_ok(s) == s # "" /\ IsDigits(s)
py_int(s) == DigitsValue(s, 0)

\* where: { makerAssetId_in: $ids, timestamp_lt: $cursor } (takerAssetId_in for Q_TAKER)
Matching(q, ids, c, src) ==
    { e \in src :
        /\ (IF q = Q_MAKER THEN e.makerAssetId ELSE e.takerAssetId)
             \in {ids[i] : i \in 1..Len(ids)}
        /\ py_int(e.timestamp) < c }

\* first: $first, orderBy: timestamp, orderDirection: desc: the pages a request can
\* return, events of equal timestamp in any order
Pages(M) ==
    LET n == IF Cardinality(M) < FIRST THEN Cardinality(M) ELSE FIRST
    IN  { p \in [1..n -> M] :
            /\ \A i, j \in 1..n : i < j =>
                 /\ p[i] # p[j]
                 /\ py_int(p[i].timestamp) >= py_int(p[j].timestamp)
            /\ \A e \in M \ {p[i] : i \in 1..n} :
                 \A i \in 1..n : py_int(e.timestamp) <= py_int(p[i].timestamp) }

\* the loop over the rows of a page, from its first n rows: the seen set, the rows
\* written and earliest (<<>> for None, <<ts>> otherwise)
RECURSIVE write_rows(_, _, _)
write_rows(rows, n, seen0) ==
    IF n = 0 THEN [seen |-> seen0, wrote |-> <<>>, earliest |-> <<>>]
    ELSE LET before == write_rows(rows, n - 1, seen0)
             r      == rows[n]
         IN  IF r.id \in before.seen THEN before
             ELSE [seen     |-> before.seen \cup {r.id},
                   wrote    |-> Append(before.wrote, r),
                   earliest |-> IF ~py_int_ok(r.timestamp) THEN before.earliest
                                ELSE IF before.earliest = <<>>
                                        \/ py_int(r.timestamp) < before.earliest[1]
                                THEN <<py_int(r.timestamp)>>
                                ELSE before.earliest]

\* a faulty cursor update that C13 rejects: the cursor stays when nothing new was seen
next_cursor_stuck(earliest, c) ==
    IF earliest # <<>> /\ earliest[1] # 0 THEN earliest[1] - 1 ELSE c

\* cursor = (earliest - 1) if earliest else (cursor - 60)
next_cursor(earliest, c) ==
    IF earliest # <<>> /\ earliest[1] # 0 THEN earliest[1] - 1 ELSE c - 60

\* the clean_polymarket.py variables while query_polymarket.py runs
CleanIdle ==
    /\ args = NoArgs("taker")
    /\ sha3_installed = TRUE
    /\ df = <<>>
    /\ pc = "idle"
    /\ err = ""
    /\ YES_TOKEN = ""
    /\ NO_TOKEN = ""
    /\ kept = <<>>
    /\ todo = <<>>
    /\ results = <<>>
    /\ out = <<>>
    /\ csv = [written |-> FALSE, rows |-> <<>>]

BackfillInit ==
    /\ CleanIdle
    /\ source \in {S \in SUBSET EventUniverse : Cardinality(S) <= MaxEvents}
    /\ yes_no_ids = <<>>
    /\ qpc = "start"
    /\ query = ""
    /\ cursor = 0
    /\ seen = {}
    /\ written = <<>>
    /\ loop_total = 0
    /\ total = 0

\* yes_no_ids = get_market_tokens(CONDITION_ID): the market's two ids, or a
\* RuntimeError when the CLOB does not list the condition with two tokens
GetMarketTokens ==
    /\ qpc = "start"
    /\ \/ yes_no_ids' = <<DEFAULT_YES_TOKEN, DEFAULT_NO_TOKEN>> /\ qpc' = "tokens"
       \/ yes_no_ids' = yes_no_ids /\ qpc' = "failed"
    /\ UNCHANGED <<source, query, cursor, seen, written, loop_total, total>>
    /\ UNCHANGED cleanVars

\* main calls backfill_loop: with Q_MAKER first, with Q_TAKER after that returned
BackfillCall ==
    /\ \/ qpc = "tokens" /\ query' = Q_MAKER
       \/ qpc = "returned" /\ query = Q_MAKER /\ query' = Q_TAKER
    /\ loop_total' = 0
    /\ cursor' = CURSOR_START
    /\ qpc' = "loop"
    /\ UNCHANGED <<source, yes_no_ids, seen, written, total>>
    /\ UNCHANGED cleanVars

\* one iteration of the while loop: the request, the rows, the cursor, the breaks;
\* on a break the loop returns and main adds its count to total
BackfillPage ==
    /\ qpc = "loop"
    /\ \E rows \in Pages(Matching(query, yes_no_ids, cursor, source)) :
         IF rows = <<>>
         THEN /\ qpc' = "returned"
              /\ total' = total + loop_total
              /\ UNCHANGED <<cursor, seen, written, loop_total>>
         ELSE LET w == write_rows(rows, Len(rows), seen)
                  c == next_cursor(w.earliest, cursor)
              IN  /\ seen' = w.seen
                  /\ written' = written \o w.wrote
                  /\ loop_total' = loop_total + Len(w.wrote)
                  /\ cursor' = c
                  /\ IF c <= 0
                     THEN qpc' = "returned" /\ total' = total + loop_total'
                     ELSE qpc' = "loop" /\ total' = total
    /\ UNCHANGED <<source, yes_no_ids, query>>
    /\ UNCHANGED cleanVars

\* gql raises (HTTP error, or "errors" in the answer): main stops
GqlRaises ==
    /\ qpc = "loop"
    /\ qpc' = "failed"
    /\ UNCHANGED <<source, yes_no_ids, query, cursor, seen, written, loop_total, total>>
    /\ UNCHANGED cleanVars

\* both loops returned: the file is closed, the count printed
MainDone ==
    /\ qpc = "returned" /\ query = Q_TAKER
    /\ qpc' = "done"
    /\ UNCHANGED <<source, yes_no_ids, query, cursor, seen, written, loop_total, total>>
    /\ UNCHANGED cleanVars

BackfillNext == \/ GetMarketTokens
                \/ BackfillCall
                \/ BackfillPage
                \/ GqlRaises
                \/ MainDone

Backfill == BackfillInit /\ [][BackfillNext]_vars

\* every request returns: each step of main other than a raise is taken in the end
BackfillFair ==
    /\ BackfillInit
    /\ [][BackfillNext]_vars
    /\ WF_vars(GetMarketTokens \/ BackfillCall \/ BackfillPage \/ MainDone)

(***************************************************************************)
(* What the claims speak of: exact sums over the retained fills, in        *)
(* millionths of a token, and equality of floats up to rounding.           *)
(***************************************************************************)
RECURSIVE SumInts(_)
SumInts(ns) == IF ns = <<>> THEN 0 ELSE Head(ns) + SumInts(Tail(ns))

Range(seq) == {seq[i] : i \in 1..Len(seq)}

\* the transaction's retained fills: tokens received by the taker from makers
\* minus tokens given by the taker, in millionths
ExactNetMicro(tx, tok) ==
    SumInts([i \in 1..Len(kept) |->
               IF kept[i].transactionHash # tx THEN 0
               ELSE (IF kept[i].makerAssetId = tok THEN kept[i].makerAmountFilled ELSE 0)
                    - (IF kept[i].takerAssetId = tok THEN kept[i].takerAmountFilled ELSE 0)])

\* the settlement amounts on the legs opposite the token, in millionths
ExactVolumeMicro(tx, tok) ==
    SumInts([i \in 1..Len(kept) |->
               IF kept[i].transactionHash # tx THEN 0
               ELSE IF kept[i].makerAssetId = tok THEN kept[i].takerAmountFilled
               ELSE IF kept[i].takerAssetId = tok THEN kept[i].makerAmountFilled
               ELSE 0])

\* |x - y| <= 2^-30, under a billionth of a token
IsClose(x, y) == FLeq(FAbs(FSub(x, y)), FScale(FFromInt(1), -30))

\* |x - y| <= 2^-40 * |y|
IsCloseRel(x, y) == FLeq(FAbs(FSub(x, y)), FScale(FAbs(y), -40))

\* the net position change a row reports: +size for BUY, -size for SELL
SignedSize(r) == IF r.side = "BUY" THEN r.size ELSE FNeg(r.size)

\* canon_group has run on every group
Grouped == \/ pc \in {"cleaned", "done"}
           \/ pc = "grouping" /\ todo = <<>>
           \/ pc = "failed" /\ err = "KeyError"

\* canon_group has run on some group, or none is left
Grouping == Grouped \/ pc = "grouping"

RowsFor(tx, tok) == {i \in 1..Len(results) : results[i].transactionHash = tx
                                              /\ results[i].asset = tok}

\* C1: under the taker perspective every row's net position change (+size for BUY,
\* -size for SELL) is, up to float rounding, the exact net of its transaction and
\* token (maker-side makerAmountFilled minus taker-side takerAmountFilled, over
\* 1,000,000): BUY when that net is positive, SELL when negative, and every nonzero
\* net has its row.
C1_NetTokensTaker ==
    (args.perspective = "taker" /\ Grouping) =>
        /\ \A i \in 1..Len(results) :
             LET r == results[i]
                 S == ExactNetMicro(r.transactionHash, r.asset)
             IN  /\ r.side \in {"BUY", "SELL"}
                 /\ IsClose(SignedSize(r), to_units(S))
                 /\ (S > 0 => r.side = "BUY")
                 /\ (S < 0 => r.side = "SELL")
        /\ Grouped =>
             \A tx \in {kept[i].transactionHash : i \in 1..Len(kept)} :
               \A tok \in {YES_TOKEN, NO_TOKEN} :
                 ExactNetMicro(tx, tok) # 0 => RowsFor(tx, tok) # {}

\* the spec's example: 10 Yes from the maker for 6, then 4 Yes from the taker for
\* 2.4, in one transaction: BUY, size 6, volume 8.4
C1_Witness ==
    /\ pc = "done" /\ args.perspective = "taker" /\ Len(kept) = 2 /\ Len(out) = 1
    /\ kept[1].transactionHash = kept[2].transactionHash
    /\ \E i, j \in 1..2 :
         /\ kept[i].makerAssetId = YES_TOKEN /\ kept[i].makerAmountFilled = 10000000
         /\ kept[i].takerAmountFilled = 6000000
         /\ kept[j].takerAssetId = YES_TOKEN /\ kept[j].takerAmountFilled = 4000000
         /\ kept[j].makerAmountFilled = 2400000
    /\ out[1].side = "BUY" /\ out[1].outcome = "Yes"
    /\ out[1].size = FFromInt(6)
    /\ out[1].volume_usdc = FDiv(FFromInt(84), FFromInt(10))

ValidMarket == YES_TOKEN # NO_TOKEN /\ YES_TOKEN # USDC_ZERO_ID /\ NO_TOKEN # USDC_ZERO_ID

\* C2 (as claimed): for a valid market, once every group is done, each
\* (transaction, token) pair has exactly one row when its exact net is nonzero and
\* no row when it is zero.
C2_OneRowPerNonzeroNet ==
    (ValidMarket /\ Grouped) =>
        \A tx \in {kept[i].transactionHash : i \in 1..Len(kept)} :
          \A tok \in {YES_TOKEN, NO_TOKEN} :
            Cardinality(RowsFor(tx, tok)) = IF ExactNetMicro(tx, tok) # 0 THEN 1 ELSE 0

Opposite(perspective) == IF perspective = "taker" THEN "maker" ELSE "taker"
FlipSide(side) == IF side = "BUY" THEN "SELL" ELSE "BUY"

\* the transaction's first retained fill, in timestamp order
FirstFill(tx) == group_of(sort_values(filter_fills(df, YES_TOKEN, NO_TOKEN)), tx)[1]

\* C3: the run on the same fills and market under the other perspective gives rows
\* for the same (transaction, token) pairs in the same order, each with its side
\* flipped, its size, volume (and every other column) unchanged, and the maker's
\* address as proxyWallet where the taker run has the taker's; a run that gives no
\* rows under one perspective gives none under the other.
C3_PerspectiveNegates ==
    /\ pc \in {"cleaned", "done"} =>
         LET other == clean_trades(df, YES_TOKEN, NO_TOKEN, Opposite(args.perspective))
             T == IF args.perspective = "taker" THEN out ELSE other.rows
             M == IF args.perspective = "taker" THEN other.rows ELSE out
         IN  /\ other.ok
             /\ Len(T) = Len(M)
             /\ \A i \in 1..Len(T) :
                  /\ M[i].transactionHash = T[i].transactionHash
                  /\ M[i].asset = T[i].asset
                  /\ M[i].side = FlipSide(T[i].side)
                  /\ M[i].size = T[i].size
                  /\ M[i].volume_usdc = T[i].volume_usdc
                  /\ T[i].proxyWallet = FirstFill(T[i].transactionHash).taker
                  /\ M[i] = [T[i] EXCEPT !.side = FlipSide(T[i].side),
                                         !.proxyWallet = FirstFill(T[i].transactionHash).maker]
    /\ pc = "failed" =>
         ~clean_trades(df, YES_TOKEN, NO_TOKEN, Opposite(args.perspective)).ok

\* a maker run with a BUY row and a SELL row whose wallets differ
C3_Witness ==
    /\ pc = "done" /\ args.perspective = "maker" /\ Len(out) = 2
    /\ out[1].side = "BUY" /\ out[2].side = "SELL"
    /\ {out[1].proxyWallet, out[2].proxyWallet} = {"0xm1", "0xm2"}

\* the latest timestamp among the transaction's retained fills that involve the token
TokenMaxTimestamp(tx, tok) ==
    CHOOSE t \in {kept[i].timestamp : i \in 1..Len(kept)} :
      /\ \E i \in 1..Len(kept) :
           /\ kept[i].transactionHash = tx /\ kept[i].timestamp = t
           /\ (kept[i].makerAssetId = tok \/ kept[i].takerAssetId = tok)
      /\ \A i \in 1..Len(kept) :
           (kept[i].transactionHash = tx
            /\ (kept[i].makerAssetId = tok \/ kept[i].takerAssetId = tok))
           => kept[i].timestamp <= t

\* C4 (as claimed): every row's timestamp is the latest timestamp among the fills of
\* its transaction that involve its token.
C4_TimestampOfToken ==
    Grouping =>
        \A i \in 1..Len(results) :
          results[i].timestamp
            = TokenMaxTimestamp(results[i].transactionHash, results[i].asset)

\* the claim's condition on a fill: a market token on one side, the settlement
\* sentinel "0" on the other
Eligible(r) ==
    \/ r.makerAssetId \in {YES_TOKEN, NO_TOKEN} /\ r.takerAssetId = "0"
    \/ r.takerAssetId \in {YES_TOKEN, NO_TOKEN} /\ r.makerAssetId = "0"

\* C5: the retained fills are exactly the fills of the file with a market token on
\* one side and "0" on the other, in the file's order; no retained fill is
\* token-for-token, settlement-for-settlement or of a token outside the pair; and
\* the filter leaves its own output as it is.
C5_FilterIff ==
    /\ pc = "filtered" =>
         /\ [i \in 1..Len(kept) |-> [kept[i] EXCEPT !.timestamp = 0,
                                                !.makerAmountFilled = 0,
                                                !.takerAmountFilled = 0]]
              = SelectSeq([i \in 1..Len(df) |-> [df[i] EXCEPT !.timestamp = 0,
                                                              !.makerAmountFilled = 0,
                                                              !.takerAmountFilled = 0]],
                          Eligible)
         /\ \A i \in 1..Len(kept) :
              /\ ~(kept[i].makerAssetId # "0" /\ kept[i].takerAssetId # "0")
              /\ ~(kept[i].makerAssetId = "0" /\ kept[i].takerAssetId = "0")
              /\ {kept[i].makerAssetId, kept[i].takerAssetId} \subseteq
                   {"0", YES_TOKEN, NO_TOKEN}
         /\ SelectSeq(kept, LAMBDA r : mask_token_usdc(r, YES_TOKEN, NO_TOKEN)) = kept
    /\ (pc = "failed" /\ err = "RuntimeError") => \A i \in 1..Len(df) : ~Eligible(df[i])

\* of two fills, a token-for-settlement one is kept and a token-for-token one dropped
C5_Witness ==
    /\ pc = "filtered" /\ Len(df) = 2 /\ Len(kept) = 1
    /\ \E i \in 1..2 : df[i].makerAssetId = YES_TOKEN /\ df[i].takerAssetId = NO_TOKEN
    /\ \E i \in 1..2 : df[i].makerAssetId = "0" /\ df[i].takerAssetId = NO_TOKEN
    /\ kept[1].takerAssetId = NO_TOKEN /\ kept[1].makerAssetId = "0"

\* C6: every row has size > 0 and a price, price * size is its volume up to float
\* rounding, and its volume is, up to float rounding, the unsigned sum of the
\* settlement amounts on the legs opposite its token over all the transaction's
\* fills of that token (so the divisor is never zero).
C6_PriceTimesSize ==
    Grouping =>
        \A i \in 1..Len(results) :
          LET r == results[i] IN
          /\ FSign(r.size) > 0
          /\ r.price # PyNone
          /\ IsCloseRel(FMul(r.price, r.size), r.volume_usdc)
          /\ IsClose(r.volume_usdc,
                     to_units(ExactVolumeMicro(r.transactionHash, r.asset)))

\* the spec's example: volume 8.4 over net size 6, price 8.4 / 6
C6_Witness ==
    /\ pc = "done" /\ Len(kept) = 2 /\ Len(out) = 1
    /\ out[1].size = FFromInt(6)
    /\ out[1].volume_usdc = FDiv(FFromInt(84), FFromInt(10))
    /\ out[1].price = FDiv(FDiv(FFromInt(84), FFromInt(10)), FFromInt(6))
    /\ ExactVolumeMicro(out[1].transactionHash, out[1].asset) = 8400000
    /\ ExactNetMicro(out[1].transactionHash, out[1].asset) \in {6000000, -6000000}

\* C7: the returned rows (and the rows written) are in descending order of timestamp.
C7_NewestFirst ==
    /\ pc \in {"cleaned", "done"} =>
         \A i \in 1..(Len(out) - 1) : out[i].timestamp >= out[i + 1].timestamp
    /\ csv.written =>
         \A i \in 1..(Len(csv.rows) - 1) :
           csv.rows[i].timestamp >= csv.rows[i + 1].timestamp

\* two rows that apply returned oldest first, written newest first
C7_Witness ==
    /\ pc = "done" /\ Len(results) = 2
    /\ results[1].timestamp < results[2].timestamp
    /\ csv.rows[1].timestamp > csv.rows[2].timestamp

\* no explicit pair, and no condition id + collateral that derives
NoSourceResolves ==
    /\ ~(Truthy(args.yes_token) /\ Truthy(args.no_token))
    /\ ~(/\ Truthy(args.condition) /\ Truthy(args.collateral)
         /\ derive_position_id_ok(args.condition, args.collateral, sha3_installed))

\* C8 (as claimed): when no token-id source resolves, the run stops at resolution:
\* no pair is returned, nothing is filtered or aggregated, nothing is written.
C8_NoSourceIsFatal ==
    (NoSourceResolves /\ pc # "start") =>
        /\ pc = "failed"
        /\ YES_TOKEN = "" /\ NO_TOKEN = ""
        /\ kept = <<>> /\ results = <<>> /\ out = <<>>
        /\ ~csv.written

\* a condition id and a collateral address are given, no explicit pair, and one of
\* the two is not hex of the right length
MalformedDerivation ==
    /\ ~(Truthy(args.yes_token) /\ Truthy(args.no_token))
    /\ Truthy(args.condition) /\ Truthy(args.collateral)
    /\ ~(hexstr_to_bytes32_ok(args.condition) /\ address_to_bytes_ok(args.collateral))

\* C9 (as claimed): after a derivation that fails on malformed input, the pair
\* returned is the one inferred from the fills, whenever the fills hold two
\* non-settlement asset ids.
C9_FallsBackToInference ==
    (MalformedDerivation /\ pc # "start" /\ infer_token_ids_from_file(df) # <<>>) =>
        <<YES_TOKEN, NO_TOKEN>> = infer_token_ids_from_file(df)

\* C10: once the filter has run on fills none of which has a market token on one
\* side and "0" on the other, the run has failed with the empty-input error, no
\* group was aggregated, no result was built and nothing was written.
C10_EmptyFilterIsFatal ==
    (pc \notin {"start", "resolved"} /\ \A i \in 1..Len(df) : ~Eligible(df[i])) =>
        /\ pc = "failed" /\ err = "RuntimeError"
        /\ kept = <<>> /\ todo = <<>> /\ results = <<>> /\ out = <<>>
        /\ ~csv.written

\* a file of fills, none of them eligible, that ended in the empty-input error
C10_Witness ==
    /\ pc = "failed" /\ err = "RuntimeError" /\ Len(df) = 2
    /\ \A i \in 1..Len(df) : ~Eligible(df[i])
    /\ ~csv.written

\* the filter kept fills, and every (transaction, token) pair of them nets to zero
AllPairsNetZero ==
    /\ kept # <<>>
    /\ \A tx \in {kept[i].transactionHash : i \in 1..Len(kept)} :
         \A tok \in {YES_TOKEN, NO_TOKEN} : ExactNetMicro(tx, tok) = 0

\* C12 (as claimed): when the retained fills net to exactly zero for every
\* (transaction, token) pair, the run does not fail, and it ends with a written
\* result of zero rows.
C12_ZeroNetCompletes ==
    AllPairsNetZero =>
        /\ pc # "failed"
        /\ pc = "done" => (csv.written /\ csv.rows = <<>>)

\* the events of the subgraph with a market token on the maker or the taker side
MarketEvents ==
    { e \in source : \E i \in 1..Len(yes_no_ids) :
                       e.makerAssetId = yes_no_ids[i] \/ e.takerAssetId = yes_no_ids[i] }

\* C11 (as claimed): when both loops have returned, no event id was written twice
\* and the events written are exactly the subgraph's events with a market token
\* on either side.
C11_EveryMarketEventOnce ==
    qpc = "done" =>
        /\ \A i, j \in 1..Len(written) : i # j => written[i].id # written[j].id
        /\ {written[i] : i \in 1..Len(written)} = MarketEvents

\* C13: when every request returns, a loop that is running returns; while it runs,
\* every iteration lowers the cursor; and it returns only on an empty page or on a
\* cursor <= 0.
C13_LoopTerminates ==
    /\ [][(qpc = "loop" /\ qpc' = "loop") => (cursor' < cursor /\ cursor' > 0)]_vars
    /\ [][(qpc = "loop" /\ qpc' = "returned") =>
            \/ cursor' = cursor /\ Matching(query, yes_no_ids, cursor, source) = {}
            \/ cursor' < cursor /\ cursor' <= 0]_vars
    /\ (qpc = "loop") ~> (qpc # "loop")

\* a loop that wrote an event of timestamp 0 and then stepped its cursor down by
\* 60 a request until 0
C13_Witness ==
    /\ qpc = "returned" /\ cursor = 0 /\ loop_total > 0
    /\ \E i \in 1..Len(written) : written[i].timestamp = "0"

====
